---- MODULE Spec2Model ----
(***************************************************************************)
(* Model of scripts/run_mongo_import.sh: the daily MongoDB -> ListMonk     *)
(* import.  One run of the script is a sequence of steps separated by its  *)
(* external calls (extractor, login, upload, timestamp update); the source *)
(* collection receives new users at any moment between those steps.        *)
(***************************************************************************)
EXTENDS Integers, Sequences, FiniteSets, TLC

\* ------------------------------------------------------------------ bounds
MaxRecords == 2
MaxTime == 2
MaxRuns == 3
MaxSwitches == 2

VARIABLES
    source,          \* the users collection: sequence of [created_at, valid]
    now,             \* the source system's clock
    checkpoint,      \* last_sync_timestamp in the tracking collection
    csvFile,         \* ${TEMP_DIR}/listmonk_import.csv, kept between runs
    imports,         \* per record: number of confirmed imports at the target
    pc,              \* position of the script
    runs,            \* number of runs started
    envFile,         \* does .env define the Telegram variables
    USER_COUNT,
    EXTRACT_STATUS,
    IMPORT_RESPONSE,
    cookie,          \* does the cookie jar hold a valid session
    exitCode,
    sent,            \* notifications sent by this run
    cpStart,         \* checkpoint when the run started
    batch,           \* records the extractor found in this run
    confirmed,       \* records the import endpoint accepted in this run
    calls,           \* external calls made by this run
    faults,          \* what went wrong in this run
    hist,            \* the last two runs since a user was last created
    reExtracted,     \* a committed record was extracted again
    targetCfg,       \* does config.json give the ListMonk URL
    logLines,        \* lines this run wrote with log()
    cleaned,         \* did this run delete the old log files
    delivered,       \* did Telegram accept this run's notification
    seen,            \* size of the collection when this run queried it
    prev,            \* the previous run: its batch, what it saw, how it ended
    highest,         \* greatest timestamp ever written to the checkpoint
    parked,          \* the variables of a second run of the script, not on CPU
    switches         \* number of times the two runs took turns

vars == <<source, now, checkpoint, csvFile, imports, pc, runs, envFile,
          USER_COUNT, EXTRACT_STATUS, IMPORT_RESPONSE, cookie, exitCode, sent,
          cpStart, batch, confirmed, calls, faults, hist, reExtracted,
          targetCfg, logLines, cleaned, delivered, seen, prev, highest, parked, switches>>

Ids == 1..MaxRecords

Max(S) == CHOOSE x \in S : \A y \in S : y <= x

CreatedAt(S) == {source[i].created_at : i \in S}

Valid(S) == {i \in S : source[i].valid}

\* ------------------------------------------------------- the extractor
\* mongo_to_listmonk.py --extract-only: users created after the checkpoint
Extractor(cp) == {i \in 1..Len(source) : source[i].created_at > cp}

\* Transformer: rows of the processed CSV; records without email are skipped
Transformer(found) == Valid(found)

NoLine == -1

\* USER_COUNT=$(... grep -o "Found [0-9]* new users" ...); empty -> 0
UserCount(output) == IF output = NoLine THEN 0 ELSE output

CsvMissingNoCount(file, count) == ~file.exists

\* [ ! -f listmonk_import.csv ] && [ USER_COUNT -gt 0 ]
CsvMissing(file, count) == ~file.exists /\ count > 0

NoNewUsersLt(count) == count < 0

\* [ USER_COUNT -eq 0 ]
NoNewUsers(count) == count = 0

\* ---------------------------------------------------------- the target
RespEmpty == <<>>
RespSuccess == <<"data", "true">>
RespError == <<"message", "error">>

Contains(body, word) == \E i \in 1..Len(body) : body[i] = word

ImportFailedExact(response) == response = <<"error">>

ImportFailedUpper(response) == Contains(response, "Error")

\* [[ "${IMPORT_RESPONSE}" == *"error"* ]]
ImportFailed(response) == Contains(response, "error")

CurlOk == 0
CurlUrlMalformed == 3
CurlCouldNotConnect == 7

\* exit status of curl (no --fail): non-zero only without an HTTP response
CurlExit(outcome) ==
    IF outcome = "unreachable" THEN CurlCouldNotConnect
    ELSE IF outcome = "nourl" THEN CurlUrlMalformed
    ELSE CurlOk

\* if [ $? -ne 0 ] after the login call
AuthFailed(status) == status # 0

\* --------------------------------------------------------- checkpoint store
UpdateTimestampIfLater(cp, found) ==
    IF Transformer(found) = {} THEN cp ELSE Max({cp} \cup CreatedAt(Transformer(found)))

\* mongo_to_listmonk.py --update-timestamp: set(max created_at in batch)
UpdateTimestamp(cp, found) ==
    IF Transformer(found) = {} THEN cp ELSE Max(CreatedAt(Transformer(found)))

\* ------------------------------------------------------- notifications
Notification(kind, count) == [kind |-> kind, count |-> count]

NoCalls == [extract |-> 0, auth |-> 0, upload |-> 0, commit |-> 0]

\* users created after the checkpoint
Newer == {i \in 1..Len(source) : source[i].created_at > checkpoint}

NoPrev == [failed |-> FALSE, batch |-> {}, seen |-> 0]

\* the variables of one process running the script, before it starts
Idle ==
    [pc |-> "idle", envFile |-> TRUE, targetCfg |-> TRUE, USER_COUNT |-> 0,
     EXTRACT_STATUS |-> 0, IMPORT_RESPONSE |-> RespEmpty, exitCode |-> 0,
     sent |-> <<>>, cpStart |-> 0, batch |-> {}, confirmed |-> {},
     calls |-> NoCalls, faults |-> {}, logLines |-> <<>>, cleaned |-> FALSE,
     delivered |-> FALSE, seen |-> 0]

Last(s) == IF s = <<>> THEN <<>> ELSE <<s[Len(s)]>>

Init ==
    /\ source = <<>>
    /\ now = 1
    /\ checkpoint = 0
    /\ csvFile = [exists |-> FALSE, rows |-> {}]
    /\ imports = [i \in Ids |-> 0]
    /\ pc = "idle"
    /\ runs = 0
    /\ envFile = TRUE
    /\ USER_COUNT = 0
    /\ EXTRACT_STATUS = 0
    /\ IMPORT_RESPONSE = RespEmpty
    /\ cookie = FALSE
    /\ exitCode = 0
    /\ sent = <<>>
    /\ cpStart = 0
    /\ batch = {}
    /\ confirmed = {}
    /\ calls = NoCalls
    /\ faults = {}
    /\ hist = <<>>
    /\ reExtracted = FALSE
    /\ targetCfg = TRUE
    /\ logLines = <<>>
    /\ cleaned = FALSE
    /\ delivered = FALSE
    /\ seen = 0
    /\ prev = NoPrev
    /\ highest = 0
    /\ parked = Idle
    /\ switches = 0

runVars == <<USER_COUNT, EXTRACT_STATUS, IMPORT_RESPONSE, cookie, exitCode, sent,
             cpStart, batch, confirmed, calls, faults, targetCfg, logLines,
             cleaned, delivered, seen, prev>>

\* ------------------------------------------------------------ environment
\* the application creates a user; created_at is the clock's reading
Insert ==
    /\ Len(source) < MaxRecords
    /\ \E v \in BOOLEAN : source' = Append(source, [created_at |-> now, valid |-> v])
    /\ hist' = <<>>
    /\ UNCHANGED <<now, checkpoint, csvFile, imports, pc, runs, envFile, reExtracted>>
    /\ UNCHANGED runVars
    /\ UNCHANGED <<highest, parked, switches>>

Tick ==
    /\ now < MaxTime
    /\ now' = now + 1
    /\ UNCHANGED <<source, checkpoint, csvFile, imports, pc, runs, envFile, hist, reExtracted>>
    /\ UNCHANGED runVars
    /\ UNCHANGED <<highest, parked, switches>>

\* send_telegram_notification: curl -s ... > /dev/null, its status unused
Send(kind, count) ==
    /\ sent' = Append(sent, Notification(kind, count))
    /\ \E d \in BOOLEAN : delivered' = d

\* log(): one timestamped line appended to the run's log file
Log(lines) == logLines' = logLines \o lines

\* bookkeeping: a run starts, a run ends with an outcome and a checkpoint
BeginRun ==
    Append(Last(hist), [cp0 |-> checkpoint, cp1 |-> checkpoint, kind |-> "running",
                        clean |-> (Newer = {}), after |-> (pc = "done")])

EndRun(kind, cp) ==
    hist' = IF hist = <<>> THEN hist
            ELSE [hist EXCEPT ![Len(hist)].kind = kind, ![Len(hist)].cp1 = cp]

\* ------------------------------------------------------------- the script
\* lines 115-154: load .env, verify the Telegram variables, start
StartRun ==
    /\ pc \in {"idle", "done"}
    /\ runs < MaxRuns
    /\ runs' = runs + 1
    /\ \E e \in BOOLEAN : envFile' = e
    /\ \E c \in BOOLEAN : targetCfg' = c
    /\ cleaned' = FALSE
    /\ delivered' = FALSE
    /\ seen' = 0
    /\ prev' = [failed |-> ("upload_refused" \in faults), batch |-> batch, seen |-> seen]
    /\ USER_COUNT' = 0
    /\ EXTRACT_STATUS' = 0
    /\ IMPORT_RESPONSE' = RespEmpty
    /\ cookie' = FALSE
    /\ sent' = <<>>
    /\ cpStart' = checkpoint
    /\ batch' = {}
    /\ confirmed' = {}
    /\ calls' = NoCalls
    /\ faults' = {}
    /\ IF envFile'
       THEN /\ pc' = "extract"
            /\ exitCode' = 0
            /\ logLines' = <<"starting">>
            /\ hist' = BeginRun
       ELSE /\ pc' = "done"
            /\ exitCode' = 1
            /\ logLines' = <<>>
            /\ hist' = <<>>
    /\ UNCHANGED <<source, now, checkpoint, csvFile, imports, reExtracted>>
    /\ UNCHANGED <<highest, parked, switches>>

NoCount == -1

\* lines 156-185: run the extractor, derive USER_COUNT, check the CSV,
\* stop when there is nothing to import
Extract ==
    /\ pc = "extract"
    /\ \E outcome \in {"ok", "unreachable", "nowrite"} :
         LET found == IF outcome = "unreachable" THEN {} ELSE Extractor(checkpoint)
             output == IF outcome = "unreachable" THEN NoLine ELSE Cardinality(found)
             file == IF outcome = "ok" /\ found # {}
                     THEN [exists |-> TRUE, rows |-> Transformer(found)]
                     ELSE csvFile
             count == UserCount(output)
         IN  /\ outcome = "nowrite" => found # {}
             /\ batch' = found
             /\ EXTRACT_STATUS' = IF outcome = "ok" THEN 0 ELSE 1
             /\ csvFile' = file
             /\ USER_COUNT' = count
             /\ calls' = [calls EXCEPT !.extract = @ + 1]
             /\ faults' = IF outcome = "ok" THEN faults ELSE faults \cup {"extract"}
             /\ reExtracted' = (reExtracted \/ \E i \in found : imports[i] > 0)
             /\ seen' = IF outcome = "unreachable" THEN 0 ELSE Len(source)
             /\ IF CsvMissing(file, count)
                THEN /\ Log(<<"extracting", "error">>)
                     /\ Send("failure", NoCount)
                     /\ exitCode' = 1
                     /\ pc' = "done"
                     /\ EndRun("failure", checkpoint)
                ELSE IF NoNewUsers(count)
                THEN /\ Log(<<"extracting", "nonew">>)
                     /\ Send("noop", NoCount)
                     /\ exitCode' = 0
                     /\ pc' = "done"
                     /\ EndRun("noop", checkpoint)
                ELSE /\ Log(<<"extracting">>)
                     /\ pc' = "auth"
                     /\ UNCHANGED <<sent, delivered, exitCode, hist>>
    /\ UNCHANGED <<source, now, checkpoint, imports, runs, envFile,
                   IMPORT_RESPONSE, cookie, cpStart, confirmed, targetCfg,
                   cleaned, prev>>
    /\ UNCHANGED <<highest, parked, switches>>

\* lines 187-214: read the target settings, log in, keep the session cookie
Authenticate ==
    /\ pc = "auth"
    /\ \E outcome \in {"ok", "rejected", "unreachable", "nourl"} :
         /\ (outcome = "nourl") = ~targetCfg
         /\ cookie' = (outcome = "ok")
         /\ calls' = [calls EXCEPT !.auth = @ + 1]
         /\ faults' = IF outcome = "ok" THEN faults ELSE faults \cup {"auth"}
         /\ IF AuthFailed(CurlExit(outcome))
            THEN /\ Log(<<"importing", "authenticating", "error">>)
                 /\ Send("failure", USER_COUNT)
                 /\ exitCode' = 1
                 /\ pc' = "done"
                 /\ EndRun("failure", checkpoint)
            ELSE /\ Log(<<"importing", "authenticating">>)
                 /\ pc' = "upload"
                 /\ UNCHANGED <<sent, delivered, exitCode, hist>>
    /\ UNCHANGED <<source, now, checkpoint, csvFile, imports, runs, envFile,
                   USER_COUNT, EXTRACT_STATUS, IMPORT_RESPONSE, cpStart, batch,
                   confirmed, reExtracted, targetCfg, cleaned, seen, prev>>
    /\ UNCHANGED <<highest, parked, switches>>

\* what the import endpoint answers: nothing when it cannot be reached, an
\* error body when it refuses the file or the session, else a success body
Response(outcome) ==
    CASE outcome = "unreachable" -> RespEmpty
      [] outcome = "refused" -> RespError
      [] outcome = "accepted" -> RespSuccess

\* lines 216-225: POST listmonk_import.csv to /admin/import/subscribers
Upload ==
    /\ pc = "upload"
    /\ \E outcome \in {"accepted", "refused", "unreachable"} :
         /\ outcome = "accepted" => cookie
         /\ IMPORT_RESPONSE' = Response(outcome)
         /\ calls' = [calls EXCEPT !.upload = @ + 1]
         /\ faults' = IF outcome = "accepted" THEN faults
                      ELSE faults \cup {IF outcome = "refused" THEN "upload_refused"
                                                               ELSE "upload_transport"}
         /\ confirmed' = IF outcome = "accepted" THEN csvFile.rows ELSE {}
         /\ imports' = IF outcome = "accepted"
                       THEN [i \in Ids |-> IF i \in csvFile.rows /\ imports[i] < 2
                                           THEN imports[i] + 1 ELSE imports[i]]
                       ELSE imports
    /\ Log(<<"uploading">>)
    /\ pc' = "check"
    /\ UNCHANGED <<source, now, checkpoint, csvFile, runs, envFile, USER_COUNT,
                   EXTRACT_STATUS, cookie, exitCode, sent, cpStart, batch, hist,
                   reExtracted, targetCfg, cleaned, delivered, seen, prev>>
    /\ UNCHANGED <<highest, parked, switches>>

\* lines 227-253: inspect the response; on success update the timestamp,
\* notify, clean up and exit 0
Commit ==
    /\ pc = "check"
    /\ IF ImportFailed(IMPORT_RESPONSE)
       THEN /\ Log(<<"error">>)
            /\ Send("failure", USER_COUNT)
            /\ exitCode' = 1
            /\ EndRun("failure", checkpoint)
            /\ UNCHANGED <<checkpoint, calls, faults, cleaned>>
       ELSE /\ \E outcome \in {"ok", "unreachable"} :
                 /\ checkpoint' = IF outcome = "ok"
                                  THEN UpdateTimestamp(checkpoint, batch)
                                  ELSE checkpoint
                 /\ faults' = IF outcome = "ok" THEN faults ELSE faults \cup {"commit"}
            /\ calls' = [calls EXCEPT !.commit = @ + 1]
            /\ Log(<<"imported", "updating", "completed">>)
            /\ Send("success", USER_COUNT)
            /\ cleaned' = TRUE
            /\ exitCode' = 0
            /\ EndRun("success", checkpoint')
    /\ pc' = "done"
    /\ UNCHANGED <<source, now, csvFile, imports, runs, envFile, USER_COUNT,
                   EXTRACT_STATUS, IMPORT_RESPONSE, cookie, cpStart, batch,
                   confirmed, reExtracted, targetCfg, seen, prev>>
    /\ highest' = IF checkpoint' > highest THEN checkpoint' ELSE highest
    /\ UNCHANGED <<parked, switches>>

\* the scheduler runs the other of two overlapping runs of the script: the
\* script takes no lock, TEMP_DIR and the tracking collection are shared
Switch ==
    /\ switches < MaxSwitches
    /\ switches' = switches + 1
    /\ \/ pc = "auth"
       \/ pc = "done" /\ parked.pc \in {"auth", "upload", "check"}
    /\ parked' = [pc |-> pc, envFile |-> envFile, targetCfg |-> targetCfg,
                  USER_COUNT |-> USER_COUNT, EXTRACT_STATUS |-> EXTRACT_STATUS,
                  IMPORT_RESPONSE |-> IMPORT_RESPONSE, exitCode |-> exitCode,
                  sent |-> sent, cpStart |-> cpStart, batch |-> batch,
                  confirmed |-> confirmed, calls |-> calls, faults |-> faults,
                  logLines |-> logLines, cleaned |-> cleaned,
                  delivered |-> delivered, seen |-> seen]
    /\ pc' = parked.pc
    /\ envFile' = parked.envFile
    /\ targetCfg' = parked.targetCfg
    /\ USER_COUNT' = parked.USER_COUNT
    /\ EXTRACT_STATUS' = parked.EXTRACT_STATUS
    /\ IMPORT_RESPONSE' = parked.IMPORT_RESPONSE
    /\ exitCode' = parked.exitCode
    /\ sent' = parked.sent
    /\ cpStart' = parked.cpStart
    /\ batch' = parked.batch
    /\ confirmed' = parked.confirmed
    /\ calls' = parked.calls
    /\ faults' = parked.faults
    /\ logLines' = parked.logLines
    /\ cleaned' = parked.cleaned
    /\ delivered' = parked.delivered
    /\ seen' = parked.seen
    /\ hist' = <<>>
    /\ prev' = NoPrev
    /\ UNCHANGED <<source, now, checkpoint, csvFile, imports, runs, cookie,
                   reExtracted, highest>>

Next ==
    \/ Insert
    \/ Tick
    \/ StartRun
    \/ Extract
    \/ Authenticate
    \/ Upload
    \/ Commit

Spec == Init /\ [][Next]_vars

\* two processes, each running the script once with a complete configuration
NextOverlap ==
    \/ Next /\ (runs' # runs => pc = "idle") /\ envFile' /\ targetCfg'
    \/ Switch

\* two runs of the script may overlap
SpecOverlap == Init /\ [][NextOverlap]_vars

TypeOK ==
    /\ Len(source) <= MaxRecords
    /\ now \in 1..MaxTime
    /\ checkpoint \in 0..MaxTime
    /\ pc \in {"idle", "extract", "auth", "upload", "check", "done"}
    /\ USER_COUNT \in 0..MaxRecords
    /\ exitCode \in {0, 1}
    /\ Len(sent) <= 1

\* ------------------------------------------------------------------ claims
Done == pc = "done" /\ calls.extract = 1

FailureSent(count) == sent = <<Notification("failure", count)>>

\* C1: every record at or below the checkpoint was confirmed imported or was
\* skipped as malformed; the checkpoint never passes an unconfirmed record
C1_NoUnconfirmedBehindCheckpoint ==
    \A i \in 1..Len(source) :
        source[i].created_at <= checkpoint => imports[i] > 0 \/ ~source[i].valid

\* C2: when a run ends the checkpoint is the value it had at the start, or
\* the greatest created_at of the records the import endpoint confirmed
C2_CheckpointStartOrMaxConfirmed ==
    Done => \/ checkpoint = cpStart
            \/ confirmed # {} /\ checkpoint = Max(CreatedAt(confirmed))

\* C3: an import response with an error indicator, transport succeeded, ends
\* the run as a failure: checkpoint as at the start, no timestamp update, one
\* failure notification, exit code 1
C3_ErrorBodyFailsRun ==
    Done /\ calls.upload = 1 /\ IMPORT_RESPONSE = RespError =>
        /\ checkpoint = cpStart
        /\ calls.commit = 0
        /\ FailureSent(USER_COUNT)
        /\ exitCode = 1

C3_Witness ==
    /\ Done
    /\ cookie
    /\ IMPORT_RESPONSE = RespError
    /\ "upload_refused" \in faults
    /\ exitCode = 1
    /\ batch # {}

\* C4: an upload that fails at the transport level ends the run as a failure:
\* failure notification, checkpoint untouched, no timestamp update
C4_TransportFailureFailsRun ==
    Done /\ "upload_transport" \in faults =>
        /\ checkpoint = cpStart
        /\ calls.commit = 0
        /\ FailureSent(USER_COUNT)
        /\ exitCode = 1

\* C5: when authentication fails, for whatever reason, no upload is attempted,
\* the checkpoint is unchanged, one failure notification carries the count of
\* records found, exit code 1
C5_AuthFailureStopsRun ==
    "auth" \in faults =>
        /\ pc = "done"
        /\ calls.upload = 0
        /\ checkpoint = cpStart
        /\ FailureSent(Cardinality(batch))
        /\ exitCode = 1

\* C6: a failed extraction ends the run as a failure: failure notification,
\* exit code 1, checkpoint untouched, never the no-new-records outcome
C6_ExtractFailureFailsRun ==
    "extract" \in faults =>
        /\ pc = "done"
        /\ Len(sent) = 1 /\ sent[1].kind = "failure"
        /\ exitCode = 1
        /\ checkpoint = cpStart

\* C7: a successful extraction of zero records short-circuits the run: no
\* login, no upload, checkpoint unchanged, one no-new-users notification,
\* exit code 0
C7_NoRecordsShortCircuits ==
    calls.extract = 1 /\ EXTRACT_STATUS = 0 /\ batch = {} =>
        /\ pc = "done"
        /\ calls.auth = 0 /\ calls.upload = 0 /\ calls.commit = 0
        /\ checkpoint = cpStart
        /\ sent = <<Notification("noop", NoCount)>>
        /\ exitCode = 0

C7_Witness ==
    /\ Done
    /\ EXTRACT_STATUS = 0
    /\ batch = {}
    /\ Len(source) > 0
    /\ checkpoint > 0
    /\ exitCode = 0

\* C8: the checkpoint never decreases over a run; it stays equal on a failed
\* or no-op run and rises only on a run whose upload was confirmed
C8_MonotoneAndRisesOnlyOnConfirmed ==
    /\ checkpoint >= cpStart
    /\ checkpoint # cpStart => confirmed # {}

RunsOver == Len(hist) = 2 /\ hist[2].kind # "running"

BothNoop ==
    /\ hist[1].kind = "noop"
    /\ hist[2].kind = "noop"
    /\ hist[2].cp1 = hist[1].cp0

\* C9 as stated: after any completed run, two consecutive runs without a new
\* record both end no-op and leave the checkpoint as it was
C9_IdempotentAfterAnyRun ==
    RunsOver /\ hist[1].after => BothNoop

\* C9 amended: from a state where no record is newer than the checkpoint, two
\* consecutive runs that pass the startup check, without a new record, both
\* end no-op and leave the checkpoint as it was
C9_IdempotentWhenNothingNewer ==
    RunsOver /\ hist[1].clean => BothNoop

C9_Witness ==
    /\ RunsOver
    /\ hist[1].clean
    /\ hist[1].after
    /\ hist[1].cp0 > 0
    /\ BothNoop

\* C10: no record is in more than one confirmed upload, and a record a run
\* imported is never extracted again by a later run
C10_NoDuplicateImport ==
    /\ \A i \in Ids : imports[i] <= 1
    /\ ~reExtracted

ErrorLines == Cardinality({i \in 1..Len(logLines) : logLines[i] = "error"})

\* C12: every run that ends in failure, the startup configuration failures
\* included, wrote one failure log line, sent one notification and left the
\* checkpoint unchanged
C12_FailureLoggedAndNotifiedOnce ==
    pc = "done" /\ exitCode = 1 =>
        /\ ErrorLines = 1
        /\ Len(sent) = 1
        /\ checkpoint = cpStart

\* C13: every run, whatever its outcome, has deleted the old log files when
\* the process exits
C13_CleanupOnEveryRun ==
    pc = "done" => cleaned

\* C14: a run with a required option missing fails at startup, exit code 1,
\* without any call to the source or the target
C14_ConfigCheckedBeforeStages ==
    runs > 0 /\ (~envFile \/ ~targetCfg) =>
        /\ pc = "done"
        /\ exitCode = 1
        /\ calls = NoCalls

\* C15: on a successful run over N found records of which M are malformed,
\* N-M records are uploaded and the success notification reports N-M
C15_CountExcludesMalformed ==
    Done /\ confirmed # {} /\ Len(sent) = 1 /\ sent[1].kind = "success" =>
        /\ Cardinality(confirmed) = Cardinality(batch) - Cardinality(batch \ Valid(batch))
        /\ sent[1].count = Cardinality(batch) - Cardinality(batch \ Valid(batch))

\* C16: a notification that could not be delivered is logged and does not
\* change the run's exit code
C16_NotifyFailureLoggedNotEscalated ==
    pc = "done" /\ Len(sent) = 1 /\ ~delivered =>
        /\ Contains(logLines, "notify_failed")
        /\ exitCode = IF sent[1].kind = "failure" THEN 1 ELSE 0

\* C17: the file sent to the import endpoint holds exactly the records this
\* run extracted and transformed
C17_UploadedFileIsThisRunsBatch ==
    calls.upload = 1 => csvFile.rows = Transformer(batch)

\* C18: each stage is attempted at most once in a run, and the first failed
\* attempt of a stage ends the run in the failed outcome
C18_OneAttemptAndFirstFailureEndsRun ==
    /\ calls.extract <= 1 /\ calls.auth <= 1 /\ calls.upload <= 1 /\ calls.commit <= 1
    /\ faults # {} =>
         /\ pc = "done"
         /\ exitCode = 1
         /\ Len(sent) = 1 /\ sent[1].kind = "failure"

\* C19: a run that sent the success notification and exits with code 0 has
\* committed its checkpoint
C19_SuccessOnlyAfterCommit ==
    pc = "done" /\ exitCode = 0 /\ Len(sent) = 1 /\ sent[1].kind = "success" =>
        /\ calls.commit = 1
        /\ "commit" \notin faults

\* a step of the running process that wrote the checkpoint
Committed ==
    /\ pc = "check" /\ pc' = "done"
    /\ parked' = parked
    /\ calls'.commit = 1
    /\ "commit" \notin faults'
    /\ Valid(batch) # {}

\* C20: nothing keeps two runs from overlapping, and the timestamp update
\* overwrites whatever the checkpoint holds with the greatest created_at of
\* the committing run's own batch
C20_SetOverwritesUnconditionally ==
    [][Committed => checkpoint' = Max(CreatedAt(Valid(batch)))]_vars

\* two overlapping runs, nothing failing in either: a record imported twice
\* and the checkpoint below a value the other run had committed
C20_Witness ==
    /\ pc = "done" /\ parked.pc = "done"
    /\ faults = {} /\ parked.faults = {}
    /\ calls.commit = 1 /\ parked.calls.commit = 1
    /\ batch \cap parked.batch # {}
    /\ \E i \in Ids : imports[i] = 2
    /\ checkpoint < highest

====
